---- MODULE Spec2Model ----
(***************************************************************************)
(* Model of the FPL workload / congestion pipeline of src/backend:         *)
(*   fetch_data.py               writes data/raw/fpl_players_basic.csv     *)
(*   fetch_player_history.py     writes data/raw/fpl_player_history.csv    *)
(*   fetch_fixture_congestion.py writes data/raw/fixture_congestion.csv    *)
(*   merge_all_datasets.py       writes data/processed/fpl_merged_...csv   *)
(*                                                                         *)
(* Conventions.                                                            *)
(*  - A value that may be missing (a file that may not exist, Python None, *)
(*    pandas NaN) is a sequence of length 0 (missing) or 1 (present).      *)
(*  - A float that the code rounds to one decimal is kept in tenths        *)
(*    (11.2 is 112), an unrounded mean is kept as the pair sum, count.     *)
(*  - Kickoff instants are whole hours since an arbitrary epoch.           *)
(*  - Of a base player row only the join keys id and team_id are kept;     *)
(*    of the player's name only that it travels with the row.              *)
(*  - What the FPL API answers is part of the state: a script reads it     *)
(*    when it runs.  No script tests for its own output file, so each can  *)
(*    run again and overwrite it.                                          *)
(***************************************************************************)
EXTENDS Integers, Sequences, FiniteSets, TLC

VARIABLES
    basic_csv,        \* data/raw/fpl_players_basic.csv
    history_csv,      \* data/raw/fpl_player_history.csv
    congestion_csv,   \* data/raw/fixture_congestion.csv
    merged_csv,       \* data/processed/fpl_merged_dataset.csv
    pc,               \* "idle", "history" inside the per-player loop, or
                      \* "congestion" between the script's two requests
    df_basic,         \* fetch_player_history: the table read at its start
    idx,              \* fetch_player_history: number of rows iterated so far
    player_histories, \* fetch_player_history: the list being appended to
    responses,        \* what the element-summary endpoint answered, per row
    fetched_fixtures, \* fetch_fixture_congestion: its list 'fixtures'
    api_history,      \* what element-summary/{id}/ answers, per player id
    api_teams,        \* what bootstrap-static lists as 'teams' (their ids)
    api_fixtures      \* what the fixtures endpoint lists

vars == <<basic_csv, history_csv, congestion_csv, merged_csv, pc, df_basic,
          idx, player_histories, responses, fetched_fixtures, api_history, api_teams,
          api_fixtures>>

(***************************************************************************)
(* Bounds of the model.                                                    *)
(***************************************************************************)
MaxHist == 11          \* longest gameweek history of the aggregator runs
MaxMixedHist == 10     \* longest history that draws from all of Minutes
MaxShortHist == 5      \* longest history that also draws from OddMinutes
MaxPlayers == 2        \* most rows of the base player table
MaxBatchHist == 1      \* longest gameweek history of the batch runs
MaxFixtures == 3       \* longest fixture list of the congestion runs
MaxPipeFixtures == 2   \* longest fixture list inside a pipeline run
MaxWindowFixtures == 6 \* longest fixture list of the next-5 window runs

Minutes == {0, 45, 90}
EdgeMinutes == {0, 90}
PipeHistories == {<<90>>}
OddMinutes == {0, 20, 45, 90}
PlayerIds == {1, 2}
TeamIds == {1, 2}
KickoffHours == {0, 12, 84, 96, 240}

(***************************************************************************)
(* Optional values and sequence helpers.                                   *)
(***************************************************************************)
Null == <<>>
Some(v) == <<v>>
IsNull(x) == x = <<>>
Get(x) == x[1]

SeqsUpTo(S, n) == UNION {[1..k -> S] : k \in 0..n}

Range(s) == {s[i] : i \in 1..Len(s)}

RECURSIVE SumMinutes(_)
SumMinutes(s) == IF s = <<>> THEN 0 ELSE Head(s) + SumMinutes(Tail(s))

\* Python's s[-n:] if len(s) >= n else s
LastN(s, n) == IF Len(s) >= n THEN SubSeq(s, Len(s) - n + 1, Len(s)) ELSE s

\* Python's s[-10:-5] for len(s) >= 10
FirstHalf(s) == SubSeq(s, Len(s) - 9, Len(s) - 5)

Max(a, b) == IF a >= b THEN a ELSE b

\* round(num / den, 1) in tenths, for num >= 0 and den > 0: Python rounds the
\* double to the nearest tenth, a tie (always exactly representable here,
\* the quotient being a multiple of 0.25) to the even tenth.
RoundTenths(num, den) ==
    LET q == (10 * num) \div den
        r == (10 * num) % den
    IN  IF 2 * r > den THEN q + 1
        ELSE IF 2 * r < den THEN q
        ELSE IF q % 2 = 0 THEN q ELSE q + 1

(***************************************************************************)
(* fetch_player_history.py: the metrics of one player's gameweek history.  *)
(* A history is the sequence of the entries' minutes, oldest first.        *)
(***************************************************************************)
Last5(history) == LastN(history, 5)
Last10(history) == LastN(history, 10)

RecentMinutes5(history) == SumMinutes(Last5(history))

RecentGames5(history) ==
    Cardinality({i \in 1..Len(Last5(history)) : Last5(history)[i] > 0})

\* avg_minutes_5 as the record stores it: round(avg_minutes_5, 1), in tenths
AvgMinutes5FixedWindow(history) ==
    IF Last5(history) # <<>>
    THEN RoundTenths(RecentMinutes5(history), 5)
    ELSE 0

AvgMinutes5(history) ==
    IF Last5(history) # <<>>
    THEN RoundTenths(RecentMinutes5(history), Len(Last5(history)))
    ELSE 0

TimesUnavailable10(history) ==
    Cardinality({i \in 1..Len(Last10(history)) : Last10(history)[i] = 0})

TotalMinutes10(history) == SumMinutes(Last10(history))

GamesStarted10(history) ==
    Cardinality({i \in 1..Len(Last10(history)) : Last10(history)[i] >= 60})

\* the scan "for game in history" with its two counters, from entry i on
RECURSIVE ScanNoReset(_, _, _, _)
ScanNoReset(history, i, consecutive_count, max_consecutive) ==
    IF i > Len(history) THEN max_consecutive
    ELSE IF history[i] = 0
         THEN ScanNoReset(history, i + 1, consecutive_count + 1,
                          Max(max_consecutive, consecutive_count + 1))
         ELSE ScanNoReset(history, i + 1, consecutive_count, max_consecutive)

RECURSIVE Scan(_, _, _, _)
Scan(history, i, consecutive_count, max_consecutive) ==
    IF i > Len(history) THEN max_consecutive
    ELSE IF history[i] = 0
         THEN Scan(history, i + 1, consecutive_count + 1,
                   Max(max_consecutive, consecutive_count + 1))
         ELSE Scan(history, i + 1, 0, max_consecutive)

MaxConsecutive(history) == Scan(history, 1, 0, 0)

\* the trend of the last ten entries: second_half > first_half * 1.3 and
\* second_half < first_half * 0.7 on the two means sum / 5, which for
\* integer sums decide as 10 * s2 > 13 * s1 and 10 * s2 < 7 * s1
WorkloadTrendOver10(history) ==
    IF Len(history) > 10
    THEN LET s1 == SumMinutes(FirstHalf(history))
             s2 == SumMinutes(LastN(history, 5))
         IN  IF 10 * s2 > 13 * s1 THEN "increasing"
             ELSE IF 10 * s2 < 7 * s1 THEN "decreasing"
             ELSE "stable"
    ELSE "insufficient_data"

WorkloadTrendFromStart(history) ==
    IF Len(history) >= 10
    THEN LET s1 == SumMinutes(SubSeq(history, 1, 5))
             s2 == SumMinutes(LastN(history, 5))
         IN  IF 10 * s2 > 13 * s1 THEN "increasing"
             ELSE IF 10 * s2 < 7 * s1 THEN "decreasing"
             ELSE "stable"
    ELSE "insufficient_data"

WorkloadTrend(history) ==
    IF Len(history) >= 10
    THEN LET s1 == SumMinutes(FirstHalf(history))
             s2 == SumMinutes(LastN(history, 5))
         IN  IF 10 * s2 > 13 * s1 THEN "increasing"
             ELSE IF 10 * s2 < 7 * s1 THEN "decreasing"
             ELSE "stable"
    ELSE "insufficient_data"

GamesPlayedWindowed(history) == Len(Last10(history))

GamesPlayed(history) == Len(history)

ZeroRecord(player_id, trend) ==
    [player_id |-> player_id,
     games_played |-> 0,
     recent_minutes_last_5 |-> 0,
     recent_games_last_5 |-> 0,
     avg_minutes_per_game_last_5 |-> 0,
     times_unavailable_last_10 |-> 0,
     max_consecutive_unavailable |-> 0,
     total_minutes_last_10 |-> 0,
     games_started_last_10 |-> 0,
     workload_trend |-> trend]

\* "if not history": the player has not played yet this season
EmptyRecord(player_id) == ZeroRecord(player_id, "none")

\* the placeholder of the except branch
ErrorRecord(player_id) == ZeroRecord(player_id, "error")

HistoryRecord(player_id, history) ==
    [player_id |-> player_id,
     games_played |-> GamesPlayed(history),
     recent_minutes_last_5 |-> RecentMinutes5(history),
     recent_games_last_5 |-> RecentGames5(history),
     avg_minutes_per_game_last_5 |-> AvgMinutes5(history),
     times_unavailable_last_10 |-> TimesUnavailable10(history),
     max_consecutive_unavailable |-> MaxConsecutive(history),
     total_minutes_last_10 |-> TotalMinutes10(history),
     games_started_last_10 |-> GamesStarted10(history),
     workload_trend |-> WorkloadTrend(history)]

(***************************************************************************)
(* What the element-summary endpoint can answer for one player: a failure  *)
(* (the request raises, the status is an error, the body is not the        *)
(* expected JSON, an entry has no usable minutes), or a history.           *)
(***************************************************************************)
Failure == [kind |-> "error", history |-> <<>>]
Ok(history) == [kind |-> "ok", history |-> history]
Responses(histories) == {Failure} \cup {Ok(h) : h \in histories}

\* the body of the loop's try/except for one row: the records it appends
EmittedSkippingFailures(row, resp) ==
    IF resp.kind = "error" THEN <<>>
    ELSE IF resp.history = <<>> THEN <<EmptyRecord(row.id)>>
    ELSE <<HistoryRecord(row.id, resp.history)>>

Emitted(row, resp) ==
    IF resp.kind = "error" THEN <<ErrorRecord(row.id)>>
    ELSE IF resp.history = <<>> THEN <<EmptyRecord(row.id)>>
    ELSE <<HistoryRecord(row.id, resp.history)>>

(***************************************************************************)
(* fetch_player_history as a process: read the base table, one loop        *)
(* iteration per row, save.                                                *)
(***************************************************************************)
\* pd.read_csv of a table: the file exists (else FileNotFoundError) and holds
\* a header (else EmptyDataError; DataFrame([]).to_csv writes none)
Readable(csv) == csv # Null /\ Get(csv) # <<>>

StartHistory ==
    /\ pc = "idle"
    /\ Readable(basic_csv)       \* else return None, or an uncaught raise
    /\ pc' = "history"
    /\ df_basic' = Get(basic_csv)
    /\ idx' = 0
    /\ player_histories' = <<>>
    /\ responses' = <<>>
    /\ UNCHANGED <<basic_csv, history_csv, congestion_csv, merged_csv,
                   fetched_fixtures, api_history, api_teams, api_fixtures>>

HistoryStep ==
    /\ pc = "history"
    /\ idx < Len(df_basic)
    /\ LET row == df_basic[idx + 1]
           resp == api_history[row.id]
       IN  /\ responses' = Append(responses, resp)
           /\ player_histories' = player_histories \o Emitted(row, resp)
    /\ idx' = idx + 1
    /\ UNCHANGED <<basic_csv, history_csv, congestion_csv, merged_csv, pc,
                   df_basic, fetched_fixtures, api_history, api_teams,
                   api_fixtures>>

HistorySave ==
    /\ pc = "history"
    /\ idx = Len(df_basic)
    /\ history_csv' = Some(player_histories)
    /\ pc' = "idle"
    /\ UNCHANGED <<basic_csv, congestion_csv, merged_csv, df_basic, idx,
                   player_histories, responses, fetched_fixtures, api_history,
                   api_teams, api_fixtures>>

(***************************************************************************)
(* SpecHistory: the aggregator on every history up to MaxHist entries,     *)
(* for a base table of one player whose answer does not change.            *)
(***************************************************************************)
BaseRow(id, team_id) == [id |-> id, team_id |-> team_id]

AggregatorHistories ==
    SeqsUpTo(EdgeMinutes, MaxHist) \cup SeqsUpTo(Minutes, MaxMixedHist)
        \cup SeqsUpTo(OddMinutes, MaxShortHist)

\* the endpoint answering resp for player 1 and failing for the others
OnlyPlayer1(resp) == [p \in PlayerIds |-> IF p = 1 THEN resp ELSE Failure]

InitHistory ==
    /\ basic_csv = Some(<<BaseRow(1, 1)>>)
    /\ history_csv = Null
    /\ congestion_csv = Null
    /\ merged_csv = Null
    /\ pc = "idle"
    /\ df_basic = <<>>
    /\ idx = 0
    /\ player_histories = <<>>
    /\ responses = <<>>
    /\ fetched_fixtures = <<>>
    /\ api_history \in {OnlyPlayer1(r) : r \in Responses(AggregatorHistories)}
    /\ api_teams = <<>>
    /\ api_fixtures = <<>>

NextHistory ==
    StartHistory \/ HistoryStep \/ HistorySave

SpecHistory == InitHistory /\ [][NextHistory]_vars

(***************************************************************************)
(* fetch_fixture_congestion.py.  A fixture is [team_h, team_a, finished,   *)
(* kickoff_time]; kickoff_time is absent (None, or no such key, or ""),    *)
(* a string datetime.fromisoformat rejects, or an ISO instant.             *)
(***************************************************************************)
NoKickoff == [parse |-> "absent", hour |-> 0]
BadKickoff == [parse |-> "invalid", hour |-> 0]
Kickoff(h) == [parse |-> "ok", hour |-> h]

Fixture(h, a, fin, k) ==
    [team_h |-> h, team_a |-> a, finished |-> fin, kickoff_time |-> k]

\* [f for f in fixtures if ...], order kept
RECURSIVE Filter(_, _)
Filter(s, keep) ==
    IF s = <<>> THEN <<>>
    ELSE IF Head(s) \in keep THEN <<Head(s)>> \o Filter(Tail(s), keep)
    ELSE Filter(Tail(s), keep)

UpcomingFixtures(fixtures) ==
    Filter(fixtures, {f \in Range(fixtures) : ~f.finished})

HomeFixtures(fixtures, team_id) ==
    Filter(UpcomingFixtures(fixtures),
           {f \in Range(fixtures) : f.team_h = team_id})

AwayFixtures(fixtures, team_id) ==
    Filter(UpcomingFixtures(fixtures),
           {f \in Range(fixtures) : f.team_a = team_id})

\* the team's upcoming fixtures by kickoff, those without a usable one last
KickoffKey(f) ==
    IF f.kickoff_time.parse = "ok" THEN f.kickoff_time.hour ELSE 1000000

RECURSIVE InsertByKickoff(_, _)
InsertByKickoff(sorted, f) ==
    IF sorted = <<>> THEN <<f>>
    ELSE IF KickoffKey(f) < KickoffKey(Head(sorted)) THEN <<f>> \o sorted
    ELSE <<Head(sorted)>> \o InsertByKickoff(Tail(sorted), f)

RECURSIVE SortByKickoff(_)
SortByKickoff(fs) ==
    IF fs = <<>> THEN <<>>
    ELSE InsertByKickoff(SortByKickoff(SubSeq(fs, 1, Len(fs) - 1)),
                         fs[Len(fs)])

Next5FixturesByDate(fixtures, team_id) ==
    LET all == SortByKickoff(HomeFixtures(fixtures, team_id)
                                \o AwayFixtures(fixtures, team_id))
    IN  IF Len(all) > 5 THEN SubSeq(all, 1, 5) ELSE all

\* (home_fixtures + away_fixtures)[:5]
Next5Fixtures(fixtures, team_id) ==
    LET all == HomeFixtures(fixtures, team_id) \o AwayFixtures(fixtures, team_id)
    IN  IF Len(all) > 5 THEN SubSeq(all, 1, 5) ELSE all

\* the kickoffs of the window that are present and parse, in window order
RECURSIVE FixtureDates(_)
FixtureDates(next_5) ==
    IF next_5 = <<>> THEN <<>>
    ELSE IF Head(next_5).kickoff_time.parse = "ok"
         THEN <<Head(next_5).kickoff_time.hour>> \o FixtureDates(Tail(next_5))
         ELSE FixtureDates(Tail(next_5))

\* fixture_dates.sort()
RECURSIVE InsertHour(_, _)
InsertHour(sorted, h) ==
    IF sorted = <<>> THEN <<h>>
    ELSE IF h < Head(sorted) THEN <<h>> \o sorted
    ELSE <<Head(sorted)>> \o InsertHour(Tail(sorted), h)

RECURSIVE SortHours(_)
SortHours(dates) ==
    IF dates = <<>> THEN <<>>
    ELSE InsertHour(SortHours(Tail(dates)), Head(dates))

\* (later - earlier).days of two instants, later >= earlier
Days(earlier, later) == (later - earlier) \div 24

\* sum(day_gaps) of the sorted dates
RECURSIVE SumDayGaps(_)
SumDayGaps(sorted) ==
    IF Len(sorted) < 2 THEN 0
    ELSE Days(sorted[1], sorted[2]) + SumDayGaps(Tail(sorted))

\* avg_days_between_fixtures before rounding: None, or the mean
\* sum(day_gaps) / len(day_gaps) kept as [sum, n]
AvgDaysBetweenFixtures(fixture_dates) ==
    IF Len(fixture_dates) >= 2
    THEN Some([sum |-> SumDayGaps(SortHours(fixture_dates)),
               n |-> Len(fixture_dates) - 1])
    ELSE Null

\* "if avg_days_between_fixtures:" is Python truth: neither None nor 0.0
Truthy(avg) == avg # Null /\ Get(avg).sum # 0

CongestionLevel(avg) ==
    IF Truthy(avg)
    THEN IF Get(avg).sum < 4 * Get(avg).n THEN "High"
         ELSE IF Get(avg).sum < 6 * Get(avg).n THEN "Medium"
         ELSE "Low"
    ELSE "Unknown"

\* round(avg, 1) if avg else None, in tenths
StoredAvg(avg) ==
    IF Truthy(avg) THEN Some(RoundTenths(Get(avg).sum, Get(avg).n)) ELSE Null

TeamCongestion(fixtures, team_id) ==
    LET next_5 == Next5Fixtures(fixtures, team_id)
        avg == AvgDaysBetweenFixtures(FixtureDates(next_5))
    IN  [team_id |-> team_id,
         total_upcoming_fixtures |->
             Len(HomeFixtures(fixtures, team_id))
                 + Len(AwayFixtures(fixtures, team_id)),
         next_5_fixtures_count |-> Len(next_5),
         avg_days_between_fixtures |-> StoredAvg(avg),
         congestion_level |-> CongestionLevel(avg),
         home_fixtures_upcoming |-> Len(HomeFixtures(fixtures, team_id)),
         away_fixtures_upcoming |-> Len(AwayFixtures(fixtures, team_id))]

\* the keys of team_lookup = {team['id']: ... for team in teams}: a dict
\* keeps one entry per id, at the position of the id's first occurrence
RECURSIVE TeamLookupKeys(_)
TeamLookupKeys(teams) ==
    IF teams = <<>> THEN <<>>
    ELSE LET init == TeamLookupKeys(SubSeq(teams, 1, Len(teams) - 1))
             last == teams[Len(teams)]
         IN  IF last \in Range(init) THEN init ELSE Append(init, last)

\* the loop over team_lookup.items(): one record per key, in key order
RECURSIVE TeamCongestionRows(_, _)
TeamCongestionRows(fixtures, keys) ==
    IF keys = <<>> THEN <<>>
    ELSE <<TeamCongestion(fixtures, Head(keys))>>
            \o TeamCongestionRows(fixtures, Tail(keys))

\* sort_values('avg_days_between_fixtures', na_position='last'): ascending
\* by the average, rows without one last; rows of equal average keep their
\* earlier order in tables as short as the ones drawn here
AvgBefore(a, b) ==
    /\ a.avg_days_between_fixtures # Null
    /\ \/ b.avg_days_between_fixtures = Null
       \/ Get(a.avg_days_between_fixtures) < Get(b.avg_days_between_fixtures)

RECURSIVE InsertRow(_, _)
InsertRow(sorted, r) ==
    IF sorted = <<>> THEN <<r>>
    ELSE IF AvgBefore(r, Head(sorted)) THEN <<r>> \o sorted
    ELSE <<Head(sorted)>> \o InsertRow(Tail(sorted), r)

RECURSIVE SortByAvg(_)
SortByAvg(rows) ==
    IF rows = <<>> THEN <<>>
    ELSE InsertRow(SortByAvg(SubSeq(rows, 1, Len(rows) - 1)), rows[Len(rows)])

\* the script's first request: the fixtures endpoint answers (a failing
\* request returns None with nothing done)
FetchFixtures ==
    /\ pc = "idle"
    /\ fetched_fixtures' = api_fixtures
    /\ pc' = "congestion"
    /\ UNCHANGED <<basic_csv, history_csv, congestion_csv, merged_csv,
                   df_basic, idx, player_histories, responses, api_history,
                   api_teams, api_fixtures>>

\* the rest of the script: bootstrap-static answers with its teams, the
\* table is computed from the fixtures answered before, sorted and saved,
\* over the file of an earlier run if there is one
CongestionSave ==
    /\ pc = "congestion"
    /\ api_teams # <<>>
    /\ congestion_csv' =
          Some(SortByAvg(TeamCongestionRows(fetched_fixtures,
                                            TeamLookupKeys(api_teams))))
    /\ fetched_fixtures' = <<>>
    /\ pc' = "idle"
    /\ UNCHANGED <<basic_csv, history_csv, merged_csv, df_basic, idx,
                   player_histories, responses, api_history, api_teams,
                   api_fixtures>>

\* the second request or its body raises, or no team is listed and
\* sort_values raises on a table without columns: the run ends and nothing
\* is written
CongestionRaise ==
    /\ pc = "congestion"
    /\ fetched_fixtures' = <<>>
    /\ pc' = "idle"
    /\ UNCHANGED <<basic_csv, history_csv, congestion_csv, merged_csv,
                   df_basic, idx, player_histories, responses, api_history,
                   api_teams, api_fixtures>>

\* fetch_fixture_congestion.py as a process
FetchFixtureCongestion == FetchFixtures \/ CongestionSave \/ CongestionRaise

(***************************************************************************)
(* SpecCongestion: the calculator on every fixture list up to MaxFixtures  *)
(* fixtures between two teams.                                             *)
(***************************************************************************)
Kickoffs == {NoKickoff, BadKickoff} \cup {Kickoff(h) : h \in KickoffHours}

Fixtures ==
    {Fixture(h, a, fin, k) :
        h \in TeamIds, a \in TeamIds, fin \in BOOLEAN, k \in Kickoffs}

CongestionFixtures == {f \in Fixtures : f.team_h # f.team_a}

CongestionTeamLists == {<<1>>, <<2, 1>>}

InitCongestion ==
    /\ basic_csv = Null
    /\ history_csv = Null
    /\ congestion_csv = Null
    /\ merged_csv = Null
    /\ pc = "idle"
    /\ df_basic = <<>>
    /\ idx = 0
    /\ player_histories = <<>>
    /\ responses = <<>>
    /\ fetched_fixtures = <<>>
    /\ api_history = [p \in PlayerIds |-> Failure]
    /\ api_teams \in CongestionTeamLists
    /\ api_fixtures \in SeqsUpTo(CongestionFixtures, MaxFixtures)

NextCongestion == FetchFixtures \/ CongestionSave \/ CongestionRaise

SpecCongestion == InitCongestion /\ [][NextCongestion]_vars

(***************************************************************************)
(* SpecBatch: fetch_player_history over every base table of up to          *)
(* MaxPlayers rows, every row answered by a failure or a short history.    *)
(***************************************************************************)
BaseRows == {BaseRow(id, team_id) : id \in PlayerIds, team_id \in TeamIds}
\* the tables fetch_data.py can write, the one of no player included
BaseTables == SeqsUpTo(BaseRows, MaxPlayers)

BatchHistories == SeqsUpTo(Minutes, MaxBatchHist)

InitBatch ==
    /\ basic_csv \in {Some(t) : t \in BaseTables}
    /\ history_csv = Null
    /\ congestion_csv = Null
    /\ merged_csv = Null
    /\ pc = "idle"
    /\ df_basic = <<>>
    /\ idx = 0
    /\ player_histories = <<>>
    /\ responses = <<>>
    /\ fetched_fixtures = <<>>
    /\ api_history \in [PlayerIds -> Responses(BatchHistories)]
    /\ api_teams = <<>>
    /\ api_fixtures = <<>>

NextBatch ==
    \/ StartHistory
    \/ HistoryStep
    \/ HistorySave

SpecBatch == InitBatch /\ [][NextBatch]_vars

(***************************************************************************)
(* fetch_data.py: the base player table, one row per element the           *)
(* bootstrap-static endpoint lists, in its order.                          *)
(***************************************************************************)
\* the script writes the table of the listed elements over the file of an
\* earlier run; tables is what bootstrap-static may list
FetchBasic(tables) ==
    /\ pc = "idle"
    /\ \E t \in tables :
          \* team_lookup[player['team']]: a team not listed raises KeyError
          /\ \A i \in 1..Len(t) : t[i].team_id \in Range(api_teams)
          /\ basic_csv' = Some(t)
    /\ UNCHANGED <<history_csv, congestion_csv, merged_csv, pc, df_basic, idx,
                   player_histories, responses, fetched_fixtures, api_history,
                   api_teams, api_fixtures>>

(***************************************************************************)
(* merge_all_datasets.py.  A merged row keeps the base row's keys and the  *)
(* columns of the two right tables that survive the clean-up; each of      *)
(* those is missing (NaN) or present.                                      *)
(***************************************************************************)
HistoryColumns(h) ==
    [games_played |-> Some(h.games_played),
     recent_minutes_last_5 |-> Some(h.recent_minutes_last_5),
     recent_games_last_5 |-> Some(h.recent_games_last_5),
     avg_minutes_per_game_last_5 |-> Some(h.avg_minutes_per_game_last_5),
     times_unavailable_last_10 |-> Some(h.times_unavailable_last_10),
     max_consecutive_unavailable |-> Some(h.max_consecutive_unavailable),
     total_minutes_last_10 |-> Some(h.total_minutes_last_10),
     games_started_last_10 |-> Some(h.games_started_last_10),
     workload_trend |-> Some(h.workload_trend)]

NoHistoryColumns ==
    [games_played |-> Null,
     recent_minutes_last_5 |-> Null,
     recent_games_last_5 |-> Null,
     avg_minutes_per_game_last_5 |-> Null,
     times_unavailable_last_10 |-> Null,
     max_consecutive_unavailable |-> Null,
     total_minutes_last_10 |-> Null,
     games_started_last_10 |-> Null,
     workload_trend |-> Null]

\* read_csv gives the average back as it was written: a number, or NaN
CongestionColumns(c) ==
    [total_upcoming_fixtures |-> Some(c.total_upcoming_fixtures),
     next_5_fixtures_count |-> Some(c.next_5_fixtures_count),
     avg_days_between_fixtures |-> c.avg_days_between_fixtures,
     congestion_level |-> Some(c.congestion_level),
     home_fixtures_upcoming |-> Some(c.home_fixtures_upcoming),
     away_fixtures_upcoming |-> Some(c.away_fixtures_upcoming)]

NoCongestionColumns ==
    [total_upcoming_fixtures |-> Null,
     next_5_fixtures_count |-> Null,
     avg_days_between_fixtures |-> Null,
     congestion_level |-> Null,
     home_fixtures_upcoming |-> Null,
     away_fixtures_upcoming |-> Null]

\* the rows a left row becomes in a how='left' merge: one per right row
\* with its key, in the right table's order, or one with the right columns
\* missing
RECURSIVE Matches(_, _, _)
Matches(left_row, right_columns, missing) ==
    IF right_columns = <<>> THEN <<left_row @@ missing>>
    ELSE LET rest == IF Len(right_columns) = 1 THEN <<>>
                     ELSE Matches(left_row, Tail(right_columns), missing)
         IN  <<left_row @@ Head(right_columns)>> \o rest

\* Step 1: df_basic.merge(df_history, left_on='id', right_on='player_id')
RECURSIVE MergeHistory(_, _)
MergeHistory(left, df_history) ==
    IF left = <<>> THEN <<>>
    ELSE LET hits == Filter(df_history,
                            {h \in Range(df_history) :
                                h.player_id = Head(left).id})
             cols == [i \in 1..Len(hits) |-> HistoryColumns(hits[i])]
         IN  Matches(Head(left), cols, NoHistoryColumns)
                \o MergeHistory(Tail(left), df_history)

\* Step 2: df_merged.merge(df_congestion, on team_id)
RECURSIVE MergeCongestion(_, _)
MergeCongestion(left, df_congestion) ==
    IF left = <<>> THEN <<>>
    ELSE LET hits == Filter(df_congestion,
                            {c \in Range(df_congestion) :
                                c.team_id = Head(left).team_id})
             cols == [i \in 1..Len(hits) |-> CongestionColumns(hits[i])]
         IN  Matches(Head(left), cols, NoCongestionColumns)
                \o MergeCongestion(Tail(left), df_congestion)

OrElse(x, default) == IF x = Null THEN Some(default) ELSE x

\* df_merged.fillna({...}) on the columns the model keeps; 7 days is 70 tenths
FillNaWithoutAverage(row) ==
    [row EXCEPT
        !.recent_minutes_last_5 = OrElse(@, 0),
        !.recent_games_last_5 = OrElse(@, 0),
        !.avg_minutes_per_game_last_5 = OrElse(@, 0),
        !.times_unavailable_last_10 = OrElse(@, 0),
        !.max_consecutive_unavailable = OrElse(@, 0),
        !.congestion_level = OrElse(@, "Unknown")]

FillNa(row) ==
    [row EXCEPT
        !.recent_minutes_last_5 = OrElse(@, 0),
        !.recent_games_last_5 = OrElse(@, 0),
        !.avg_minutes_per_game_last_5 = OrElse(@, 0),
        !.times_unavailable_last_10 = OrElse(@, 0),
        !.max_consecutive_unavailable = OrElse(@, 0),
        !.avg_days_between_fixtures = OrElse(@, 70),
        !.congestion_level = OrElse(@, "Unknown")]

MergeAll(basic, history, congestion) ==
    LET joined == MergeCongestion(MergeHistory(basic, history), congestion)
    IN  [i \in 1..Len(joined) |-> FillNa(joined[i])]

\* the three inputs are read (else return None, or an uncaught raise) and
\* the merged table is written, over the file of an earlier run if any
MergeAllDatasets ==
    /\ pc = "idle"
    /\ Readable(basic_csv) /\ Readable(history_csv) /\ Readable(congestion_csv)
    /\ merged_csv' = Some(MergeAll(Get(basic_csv), Get(history_csv),
                                   Get(congestion_csv)))
    /\ UNCHANGED <<basic_csv, history_csv, congestion_csv, pc, df_basic, idx,
                   player_histories, responses, fetched_fixtures, api_history,
                   api_teams, api_fixtures>>

(***************************************************************************)
(* The API between two runs: its answers may change.                       *)
(***************************************************************************)
ElementSummaryChanges(answers) ==
    /\ \E a \in answers : api_history' = a
    /\ UNCHANGED <<basic_csv, history_csv, congestion_csv, merged_csv, pc,
                   df_basic, idx, player_histories, responses,
                   fetched_fixtures, api_teams, api_fixtures>>

FixturesChange(teamLists, fixtureLists) ==
    /\ \E teams \in teamLists, fixtures \in fixtureLists :
          /\ api_teams' = teams
          /\ api_fixtures' = fixtures
    /\ UNCHANGED <<basic_csv, history_csv, congestion_csv, merged_csv, pc,
                   df_basic, idx, player_histories, responses,
                   fetched_fixtures, api_history>>

(***************************************************************************)
(* Spec: the four scripts run one at a time, any number of times and in    *)
(* any order, from an empty data directory, while the API's answers change.*)
(***************************************************************************)
PipeFixtures ==
    {Fixture(1, 2, FALSE, k) : k \in {NoKickoff, Kickoff(0), Kickoff(96)}}

\* the teams of bootstrap-static, as listed
PipeTeamLists == SeqsUpTo(TeamIds, 2) \ {<<>>}

\* what bootstrap-static may list as elements: nobody, one player, two
\* players, the same player twice
PipeBaseTables == {<<>>, <<BaseRow(1, 1)>>,
                   <<BaseRow(1, 1), BaseRow(2, 2)>>,
                   <<BaseRow(1, 1), BaseRow(1, 1)>>}

\* the endpoint answering every player alike
PipeAnswers == {[p \in PlayerIds |-> r] : r \in Responses(PipeHistories)}

PipeTeamChoices == {<<>>, <<1>>, <<1, 2>>}

PipeFixtureChoices == {<<>>, <<Fixture(1, 2, FALSE, Kickoff(0)),
                                Fixture(1, 2, FALSE, Kickoff(96))>>}

Init ==
    /\ basic_csv = Null
    /\ history_csv = Null
    /\ congestion_csv = Null
    /\ merged_csv = Null
    /\ pc = "idle"
    /\ df_basic = <<>>
    /\ idx = 0
    /\ player_histories = <<>>
    /\ responses = <<>>
    /\ fetched_fixtures = <<>>
    /\ api_history \in PipeAnswers
    /\ api_teams \in PipeTeamChoices
    /\ api_fixtures \in PipeFixtureChoices

Next ==
    \/ FetchBasic(PipeBaseTables)
    \/ StartHistory
    \/ HistoryStep
    \/ HistorySave
    \/ FetchFixtures
    \/ CongestionSave
    \/ CongestionRaise
    \/ MergeAllDatasets
    \/ ElementSummaryChanges(PipeAnswers)
    \/ FixturesChange(PipeTeamChoices, PipeFixtureChoices)

Spec == Init /\ [][Next]_vars

(***************************************************************************)
(* SpecWindow: the calculator on fixture lists long enough for a team to   *)
(* have more than five upcoming fixtures.                                  *)
(***************************************************************************)
WindowFixtures ==
    {Fixture(1, 2, FALSE, Kickoff(h)) : h \in {96, 240}}
        \cup {Fixture(2, 1, FALSE, Kickoff(h)) : h \in {0, 240}}
        \cup {Fixture(1, 2, FALSE, NoKickoff), Fixture(1, 2, TRUE, Kickoff(0))}

InitWindow ==
    /\ basic_csv = Null
    /\ history_csv = Null
    /\ congestion_csv = Null
    /\ merged_csv = Null
    /\ pc = "idle"
    /\ df_basic = <<>>
    /\ idx = 0
    /\ player_histories = <<>>
    /\ responses = <<>>
    /\ fetched_fixtures = <<>>
    /\ api_history = [p \in PlayerIds |-> Failure]
    /\ api_teams = <<1, 2>>
    /\ api_fixtures \in SeqsUpTo(WindowFixtures, MaxWindowFixtures)

NextWindow == FetchFixtures \/ CongestionSave \/ CongestionRaise

SpecWindow == InitWindow /\ [][NextWindow]_vars

(***************************************************************************)
(* SpecMerge: the three later scripts over a given base table, any number  *)
(* of times and in any order, while the API's answers stay the same.       *)
(***************************************************************************)
MergeHistories == {<<90>>}

InitMerge ==
    /\ basic_csv \in {Some(t) : t \in BaseTables}
    /\ history_csv = Null
    /\ congestion_csv = Null
    /\ merged_csv = Null
    /\ pc = "idle"
    /\ df_basic = <<>>
    /\ idx = 0
    /\ player_histories = <<>>
    /\ responses = <<>>
    /\ fetched_fixtures = <<>>
    /\ api_history \in [PlayerIds -> Responses(MergeHistories)]
    /\ api_teams \in PipeTeamLists
    /\ api_fixtures \in SeqsUpTo(PipeFixtures, MaxPipeFixtures)

NextMerge ==
    \/ StartHistory
    \/ HistoryStep
    \/ HistorySave
    \/ FetchFixtures
    \/ CongestionSave
    \/ CongestionRaise
    \/ MergeAllDatasets

SpecMerge == InitMerge /\ [][NextMerge]_vars

(***************************************************************************)
(* Properties of the PlayerHistory records (checked under SpecHistory).    *)
(***************************************************************************)
\* the records emitted so far, each with the response it was made from
Emissions ==
    {<<player_histories[i], responses[i]>> :
        i \in 1..(IF Len(player_histories) <= Len(responses)
                  THEN Len(player_histories) ELSE Len(responses))}

Min(a, b) == IF a <= b THEN a ELSE b

\* C3, as stated: workload_trend is "insufficient_data" whenever
\* games_played < 10, and "none" if and only if games_played = 0.
C3_AsStated ==
    \A e \in Emissions :
        /\ e[1].games_played < 10 => e[1].workload_trend = "insufficient_data"
        /\ e[1].workload_trend = "none" <=> e[1].games_played = 0

\* C3, amended: workload_trend is "insufficient_data" if and only if
\* 1 <= games_played < 10; a record with games_played = 0 carries "none"
\* when the fetch succeeded with an empty history and "error" when the
\* fetch failed, and "none" and "error" occur with games_played = 0 only.
C3_TrendOfShortHistories ==
    \A e \in Emissions :
        /\ e[1].workload_trend = "insufficient_data"
              <=> (1 <= e[1].games_played /\ e[1].games_played < 10)
        /\ e[1].workload_trend \in {"none", "error"} <=> e[1].games_played = 0
        /\ e[1].workload_trend = "none"
              <=> (e[2].kind = "ok" /\ e[2].history = <<>>)
        /\ e[1].workload_trend = "error" <=> e[2].kind = "error"

C3_Witness ==
    \E e \in Emissions :
        /\ e[1].games_played = 9
        /\ e[1].workload_trend = "insufficient_data"

\* C7, as stated: avg_minutes_per_game_last_5 equals recent_minutes_last_5
\* divided by min(5, games_played), and 0 when games_played = 0.
C7_AsStated ==
    \A e \in Emissions :
        IF e[1].games_played = 0
        THEN e[1].avg_minutes_per_game_last_5 = 0
        ELSE e[1].avg_minutes_per_game_last_5 * Min(5, e[1].games_played)
                = 10 * e[1].recent_minutes_last_5

\* C7, amended: avg_minutes_per_game_last_5 is recent_minutes_last_5 divided
\* by min(5, games_played) rounded to one decimal place (it differs from the
\* quotient by at most 0.05), and 0 when games_played = 0.
C7_AvgIsRoundedQuotient ==
    \A e \in Emissions :
        IF e[1].games_played = 0
        THEN e[1].avg_minutes_per_game_last_5 = 0
        ELSE LET n == Min(5, e[1].games_played)
                 d == e[1].avg_minutes_per_game_last_5 * n
                         - 10 * e[1].recent_minutes_last_5
             IN  2 * d <= n /\ 2 * (0 - d) <= n

\* a window of three entries whose mean, 20 / 3, is not a one-decimal number
C7_Witness ==
    \E e \in Emissions :
        /\ e[1].games_played = 3
        /\ e[1].recent_minutes_last_5 = 20
        /\ e[1].avg_minutes_per_game_last_5 = 67

\* C8: max_consecutive_unavailable <= games_played in every record.
C8_StreakAtMostGames ==
    \A e \in Emissions :
        e[1].max_consecutive_unavailable <= e[1].games_played

C8_Witness ==
    \E e \in Emissions :
        /\ e[1].games_played = MaxHist
        /\ e[1].max_consecutive_unavailable = MaxHist

\* the longest run of consecutive zero-minute entries of h, said directly
IsZeroRun(h, from, len) == \A j \in from..(from + len - 1) : h[j] = 0
LongestZeroRun(h) ==
    LET lengths == {k \in 0..Len(h) :
                       \E from \in 1..(Len(h) - k + 1) : IsZeroRun(h, from, k)}
    IN  CHOOSE k \in lengths : \A m \in lengths : m <= k

\* C10: for every non-empty history, max_consecutive_unavailable is the
\* length of the longest run of consecutive zero-minute entries of the
\* entire history.
C10_StreakIsLongestZeroRun ==
    \A e \in Emissions :
        (e[2].kind = "ok" /\ e[2].history # <<>>)
            => e[1].max_consecutive_unavailable = LongestZeroRun(e[2].history)

C10_Witness ==
    \E e \in Emissions :
        /\ e[2] = Ok(<<0, 0, 90, 0, 0, 0, 45, 90, 90, 90>>)
        /\ e[1].max_consecutive_unavailable = 3
        /\ e[1].times_unavailable_last_10 = 5
        /\ e[1].games_started_last_10 = 4

(***************************************************************************)
(* Properties of the TeamCongestion records (checked under SpecCongestion).*)
(***************************************************************************)
CongestionRows == IF congestion_csv = Null THEN {} ELSE Range(Get(congestion_csv))

\* the kickoffs of a team's next-5 window that are present and parse
Resolved(team_id) == FixtureDates(Next5Fixtures(api_fixtures, team_id))

\* C4: congestion_level = "Unknown" if and only if fewer than 2 kickoff
\* timestamps of the team's next-5 window resolve, that is if and only if
\* avg_days_between_fixtures is undefined.
C4_UnknownIffFewerThanTwoResolved ==
    \A r \in CongestionRows :
        /\ r.congestion_level = "Unknown" <=> Len(Resolved(r.team_id)) < 2
        /\ r.avg_days_between_fixtures = Null <=> Len(Resolved(r.team_id)) < 2

\* C5: with at least 2 resolved timestamps, the mean day-gap avg decides the
\* level: avg < 4 "High", 4 <= avg < 6 "Medium", avg >= 6 "Low", for every
\* non-negative mean.
C5_LevelByMeanGap ==
    \A r \in CongestionRows :
        Len(Resolved(r.team_id)) >= 2 =>
            LET sum == SumDayGaps(SortHours(Resolved(r.team_id)))
                n == Len(Resolved(r.team_id)) - 1
            IN  r.congestion_level =
                    IF sum < 4 * n THEN "High"
                    ELSE IF sum < 6 * n THEN "Medium"
                    ELSE "Low"

(***************************************************************************)
(* Properties of the per-player loop (checked under SpecBatch).            *)
(***************************************************************************)
\* C6: whatever each row's request does, the loop goes on to the last row
\* and emits exactly one record per base row, in base order; a failed row
\* gets the all-zero record with workload_trend "error", and every record
\* is the one its own row and its own response alone produce; the table a
\* run saves is the list it built (a later run leaves the file alone until
\* its own save).
C6_OneRecordPerRowWhateverFails ==
    /\ pc = "history" =>
          /\ idx <= Len(df_basic)
          /\ Len(player_histories) = idx
          /\ Len(responses) = idx
          /\ ENABLED (HistoryStep \/ HistorySave)
    /\ \A i \in 1..Len(player_histories) :
          /\ i <= Len(df_basic) /\ i <= Len(responses)
          /\ player_histories[i].player_id = df_basic[i].id
          /\ player_histories[i] = Emitted(df_basic[i], responses[i])[1]
          /\ responses[i].kind = "error" =>
                /\ player_histories[i].workload_trend = "error"
                /\ player_histories[i].games_played = 0
                /\ player_histories[i].recent_minutes_last_5 = 0
                /\ player_histories[i].recent_games_last_5 = 0
                /\ player_histories[i].avg_minutes_per_game_last_5 = 0
                /\ player_histories[i].times_unavailable_last_10 = 0
                /\ player_histories[i].max_consecutive_unavailable = 0
                /\ player_histories[i].total_minutes_last_10 = 0
                /\ player_histories[i].games_started_last_10 = 0
    /\ (pc = "idle" /\ history_csv # Null) =>
          /\ Get(history_csv) = player_histories
          /\ Len(Get(history_csv)) = Len(df_basic)

\* a saved table of two rows whose first request failed and whose second
\* was answered with a history
C6_Witness ==
    /\ history_csv # Null
    /\ Len(Get(history_csv)) = 2
    /\ responses[1] = Failure
    /\ responses[2] = Ok(<<90>>)
    /\ Get(history_csv)[1].workload_trend = "error"
    /\ Get(history_csv)[2].games_played = 1
    /\ Get(history_csv)[2].recent_minutes_last_5 = 90

(***************************************************************************)
(* Properties of the merged table (checked under Spec).                    *)
(***************************************************************************)
\* the history table on disk is the one the last run of fetch_player_history
\* made from the base table on disk
HistoryIsOfBase ==
    pc = "idle" /\ history_csv # Null /\ basic_csv = Some(df_basic)

\* the merged table on disk is the merge of the three tables on disk
MergedIsOfInputs ==
    /\ Readable(basic_csv) /\ Readable(history_csv) /\ Readable(congestion_csv)
    /\ merged_csv = Some(MergeAll(Get(basic_csv), Get(history_csv),
                                  Get(congestion_csv)))

\* C1: merging a base table with the history table made from it and with
\* the congestion table gives exactly one output row per base row: no
\* player is dropped and none is duplicated.
C1_RowCountIsBaseRowCount ==
    (MergedIsOfInputs /\ HistoryIsOfBase) =>
        /\ Len(Get(merged_csv)) = Len(Get(basic_csv))
        /\ \A i \in 1..Len(Get(merged_csv)) :
              i <= Len(Get(basic_csv))
                 /\ Get(merged_csv)[i].id = Get(basic_csv)[i].id

\* C2: no history-derived and no congestion-derived field of a merged row
\* is missing, whether or not the player's lookups found a match.
C2_NoMissingDerivedField ==
    merged_csv # Null =>
        \A i \in 1..Len(Get(merged_csv)) :
            LET row == Get(merged_csv)[i]
            IN  /\ row.games_played # Null
                /\ row.recent_minutes_last_5 # Null
                /\ row.recent_games_last_5 # Null
                /\ row.avg_minutes_per_game_last_5 # Null
                /\ row.times_unavailable_last_10 # Null
                /\ row.max_consecutive_unavailable # Null
                /\ row.total_minutes_last_10 # Null
                /\ row.games_started_last_10 # Null
                /\ row.workload_trend # Null
                /\ row.total_upcoming_fixtures # Null
                /\ row.avg_days_between_fixtures # Null
                /\ row.congestion_level # Null

(***************************************************************************)
(* The trend of histories of ten entries or more (checked under            *)
(* SpecHistory).                                                           *)
(***************************************************************************)
\* the minutes of entries from..to of h, added up
SumOfEntries(h, from, to) ==
    LET f[i \in (from - 1)..to] == IF i < from THEN 0 ELSE f[i - 1] + h[i]
    IN  f[to]

\* the trend the two half-window means give: second > 1.3 * first is
\* "increasing", second < 0.7 * first "decreasing", else "stable"; the means
\* are the sums over 5, so the comparisons are 10 * s2 > 13 * s1 and
\* 10 * s2 < 7 * s1 on the sums
TrendOfHalves(s1, s2) ==
    IF 10 * s2 > 13 * s1 THEN "increasing"
    ELSE IF 10 * s2 < 7 * s1 THEN "decreasing"
    ELSE "stable"

\* C11: for a history of at least 10 entries the trend is decided by the
\* mean of entries [-10:-5] against the mean of entries [-5:] with the
\* factors 1.3 and 0.7, is "stable" when both halves are all zero, and does
\* not depend on the entries older than the last 10.
C11_TrendOfLastTen ==
    \A e \in Emissions :
        (e[2].kind = "ok" /\ Len(e[2].history) >= 10) =>
            LET h == e[2].history
                n == Len(h)
                s1 == SumOfEntries(h, n - 9, n - 5)
                s2 == SumOfEntries(h, n - 4, n)
            IN  /\ e[1].workload_trend = TrendOfHalves(s1, s2)
                /\ (s1 = 0 /\ s2 = 0) => e[1].workload_trend = "stable"
                /\ e[1].workload_trend = WorkloadTrend(SubSeq(h, n - 9, n))

\* eleven entries, the oldest with minutes and the last ten all zero
C11_Witness ==
    \E e \in Emissions :
        /\ e[2] = Ok(<<90, 0, 0, 0, 0, 0, 0, 0, 0, 0, 0>>)
        /\ e[1].workload_trend = "stable"

(***************************************************************************)
(* The next-5 window (checked under SpecWindow).                           *)
(***************************************************************************)
\* the team's upcoming home fixtures in source order, then its upcoming
\* away fixtures in source order
HomeThenAway(team_id) ==
    SelectSeq(api_fixtures, LAMBDA f : ~f.finished /\ f.team_h = team_id)
        \o SelectSeq(api_fixtures, LAMBDA f : ~f.finished /\ f.team_a = team_id)

\* C12: the window the gaps are averaged over is the first
\* min(5, total_upcoming_fixtures) entries of the team's upcoming home
\* fixtures followed by its upcoming away fixtures, each in source order,
\* taken before any sorting by kickoff; next_5_fixtures_count is
\* min(5, total_upcoming_fixtures); a team without upcoming fixtures has
\* total 0, no average and level "Unknown".
C12_WindowIsFirstFiveHomeThenAway ==
    \A r \in CongestionRows :
        LET all == HomeThenAway(r.team_id)
            window == SubSeq(all, 1, Min(5, Len(all)))
            avg == AvgDaysBetweenFixtures(FixtureDates(window))
        IN  /\ r.total_upcoming_fixtures = Len(all)
            /\ r.next_5_fixtures_count = Min(5, r.total_upcoming_fixtures)
            /\ r.avg_days_between_fixtures = StoredAvg(avg)
            /\ r.congestion_level = CongestionLevel(avg)
            /\ r.total_upcoming_fixtures = 0 =>
                  /\ r.avg_days_between_fixtures = Null
                  /\ r.congestion_level = "Unknown"

\* five home fixtures listed latest first, then the earliest fixture, away:
\* the window is the first five as listed (240, 96, 96, 96, 96: gaps
\* 0, 0, 0, 6, mean 1.5), not the five earliest (mean 1.0)
C12_Witness ==
    /\ api_fixtures = <<Fixture(1, 2, FALSE, Kickoff(240)),
                        Fixture(1, 2, FALSE, Kickoff(96)),
                        Fixture(1, 2, FALSE, Kickoff(96)),
                        Fixture(1, 2, FALSE, Kickoff(96)),
                        Fixture(1, 2, FALSE, Kickoff(96)),
                        Fixture(2, 1, FALSE, Kickoff(0))>>
    /\ \E r \in CongestionRows :
          /\ r.team_id = 1
          /\ r.total_upcoming_fixtures = 6
          /\ r.next_5_fixtures_count = 5
          /\ r.avg_days_between_fixtures = Some(15)
          /\ r.congestion_level = "High"

(***************************************************************************)
(* The congestion columns of the merged table (checked under SpecMerge).   *)
(***************************************************************************)
MergedRows == IF merged_csv = Null THEN {} ELSE Range(Get(merged_csv))

\* the rows of the congestion table on disk for a team
CongestionOf(team_id) == {c \in CongestionRows : c.team_id = team_id}

\* C13: in every merged row congestion_level = "Unknown" implies
\* avg_days_between_fixtures = 7, both for a player whose team has no row in
\* the congestion table and for one whose team's row has no average, and
\* avg_days_between_fixtures is never missing.
C13_UnknownHasDefaultAverage ==
    \A row \in MergedRows :
        /\ row.avg_days_between_fixtures # Null
        /\ row.congestion_level = Some("Unknown")
              => row.avg_days_between_fixtures = Some(70)
        /\ CongestionOf(row.team_id) = {} =>
              /\ row.congestion_level = Some("Unknown")
              /\ row.avg_days_between_fixtures = Some(70)
        /\ \A c \in CongestionOf(row.team_id) :
              c.avg_days_between_fixtures = Null =>
                  /\ row.congestion_level = Some("Unknown")
                  /\ row.avg_days_between_fixtures = Some(70)

\* a merged table with a player of a team the congestion table lacks and a
\* player of a team whose congestion row has no average
C13_Witness ==
    /\ \E row \in MergedRows :
          /\ CongestionOf(row.team_id) = {}
          /\ row.total_upcoming_fixtures = Null
          /\ row.avg_days_between_fixtures = Some(70)
    /\ \E row \in MergedRows :
          /\ \E c \in CongestionOf(row.team_id) :
                c.avg_days_between_fixtures = Null
          /\ row.total_upcoming_fixtures # Null
          /\ row.congestion_level = Some("Unknown")
          /\ row.avg_days_between_fixtures = Some(70)

====
